---------------------------- MODULE Spec2Model ----------------------------
(***************************************************************************)
(* Model of webscraper/website.py: the page handle (Website), the          *)
(* extraction record (Query) and the file-backed record store (Cache).     *)
(*                                                                         *)
(* A Python str is modelled as a sequence of tokens.  A token is either a  *)
(* single significant character ("/", "#", "\"", "\n", "*", " ", "-") or a *)
(* run of characters that no operation of the program ever splits          *)
(* ("https:", "example.com", "Link Scrape", "2024-01-01").  All string     *)
(* operations of the program (replace, [1:], strip, in, splitlines,        *)
(* concatenation) are computed on these sequences.                         *)
(*                                                                         *)
(* A path is a sequence of components below the working directory; each    *)
(* component is a str.  None is the empty tuple, a present value x is      *)
(* <<x>>.                                                                  *)
(*                                                                         *)
(* A behaviour is one run of a caller that has opened one page: it         *)
(* requests, scrapes, stores, loads and clears in any order, at most       *)
(* MaxCalls times, while the clock advances.                               *)
(***************************************************************************)
EXTENDS Integers, Sequences, FiniteSets, TLC

VARIABLES
    dirs,       \* on-disk tree: the set of directories that exist
    files,      \* on-disk tree: path of every regular file -> its content
    sites,      \* URL -> None or <<its Website object>> (cache and storage inside)
    query,      \* the Query most recently returned to the caller, or None
    clock,      \* datetime.now(), in whole seconds since the first day
    lastOp,     \* the call that was made last and how it ended
    made,       \* history: (url, action) of the extractions made this second
    repeated,   \* history: some (url, action) was extracted twice in one second
    calls       \* history: the number of calls the caller has made

vars == <<dirs, files, sites, query, clock, lastOp, made, repeated, calls>>

None == << >>
Some(x) == <<x>>

---------------------------------------------------------------------------
(* Bounds of the model *)

MaxCalls == 6           \* calls the caller makes in one run
MaxClock == 1           \* the clock stops advancing here
SecondsPerDay == 1      \* seconds after which the date changes

---------------------------------------------------------------------------
(* str operations *)

\* s.replace(a, b) for one-character a and b
Replace(s, a, b) == [i \in 1..Len(s) |-> IF s[i] = a THEN b ELSE s[i]]

\* s[1:]
DropFirst(s) == IF s = << >> THEN << >> ELSE Tail(s)

\* sub in s
Contains(s, sub) ==
    \E i \in 0..(Len(s) - Len(sub)) : SubSeq(s, i + 1, i + Len(sub)) = sub

RECURSIVE LStrip(_, _)
LStrip(s, chars) ==
    IF s # << >> /\ Head(s) \in chars THEN LStrip(Tail(s), chars) ELSE s

RECURSIVE RStrip(_, _)
RStrip(s, chars) ==
    IF s # << >> /\ s[Len(s)] \in chars
    THEN RStrip(SubSeq(s, 1, Len(s) - 1), chars) ELSE s

\* s.strip(chars)
Strip(s, chars) == RStrip(LStrip(s, chars), chars)

\* index of the first token of s that is in stops, Len(s)+1 if there is none
RECURSIVE FirstOf(_, _, _)
FirstOf(s, stops, i) ==
    IF i > Len(s) \/ s[i] \in stops THEN i ELSE FirstOf(s, stops, i + 1)

\* s.splitlines(): lines end at "\n"; a trailing "\n" opens no last line
RECURSIVE SplitLines(_)
SplitLines(s) ==
    IF s = << >> THEN << >>
    ELSE LET k == FirstOf(s, {"\n"}, 1)
         IN  <<SubSeq(s, 1, k - 1)>> \o SplitLines(SubSeq(s, k + 1, Len(s)))

\* "".join(lines), as file.writelines does
RECURSIVE Concat(_)
Concat(lines) ==
    IF lines = << >> THEN << >> ELSE Head(lines) \o Concat(Tail(lines))

---------------------------------------------------------------------------
(* datetime formatting *)

DateNames == <<"2024-01-01", "2024-01-02", "2024-01-03", "2024-01-04">>
TimeNames == <<"00:00:00", "00:00:01", "00:00:02", "00:00:03">>

\* fdate(dt): strftime('%Y-%m-%d')
fdate(dt) == <<DateNames[((dt \div SecondsPerDay) % Len(DateNames)) + 1]>>

\* ftime(dt): strftime('%H:%M:%S')
ftime(dt) == <<TimeNames[((dt % SecondsPerDay) % Len(TimeNames)) + 1]>>

---------------------------------------------------------------------------
(* urllib.parse.urlparse, netloc and path components *)

SchemeTokens == {"https:"}

AfterScheme(url) ==
    IF url # << >> /\ Head(url) \in SchemeTokens THEN Tail(url) ELSE url

HasNetloc(rest) == Len(rest) >= 2 /\ rest[1] = "/" /\ rest[2] = "/"

\* urlparse(url).netloc
UrlNetloc(url) ==
    LET rest == AfterScheme(url) IN
    IF HasNetloc(rest)
    THEN LET body == SubSeq(rest, 3, Len(rest))
         IN  SubSeq(body, 1, FirstOf(body, {"/", "?", "#"}, 1) - 1)
    ELSE << >>

\* urlparse(url).path
UrlPath(url) ==
    LET rest == AfterScheme(url)
        tail == IF HasNetloc(rest)
                THEN LET body == SubSeq(rest, 3, Len(rest))
                     IN  SubSeq(body, FirstOf(body, {"/", "?", "#"}, 1), Len(body))
                ELSE rest
    IN  SubSeq(tail, 1, FirstOf(tail, {"?", "#"}, 1) - 1)

---------------------------------------------------------------------------
(* os / os.path / shutil on the on-disk tree *)

\* os.path.join(path, name) for a name without separators; joining "" only
\* appends a trailing separator, which names the same directory
PathJoin(path, name) == IF name = << >> THEN path ELSE Append(path, name)

IsPrefix(p, q) == Len(p) <= Len(q) /\ SubSeq(q, 1, Len(p)) = p

\* os.path.exists(path)
PathExists(d, f, path) == path \in d \/ path \in DOMAIN f

\* os.makedirs(path): the directory and every missing ancestor
MakeDirs(d, path) == d \cup {SubSeq(path, 1, k) : k \in 0..Len(path)}

\* os.listdir(path): the immediate children of a directory
ListDir(d, f, path) ==
    {p \in d \cup DOMAIN f : Len(p) = Len(path) + 1 /\ IsPrefix(path, p)}

\* the files os.walk(path) visits
WalkFiles(f, path) == {p \in DOMAIN f : IsPrefix(path, p)}


---------------------------------------------------------------------------
(* The inputs: URLs a caller opens, and what the network serves *)

UrlRoot == <<"https:", "/", "/", "example.com", "/">>
UrlPage == <<"https:", "/", "/", "example.com", "/", "a", "/", "b">>
UrlNoScheme == <<"example.com">>

Urls == {UrlRoot, UrlPage, UrlNoScheme}

\* one Website object per URL, named by it
Handles == Urls

HrefAbs == <<"https:", "/", "/", "example.com", "/", "a", "/">>
HrefRel == <<"/", "a", "/", "b">>
HrefFrag == <<"#", "top">>
HrefProtoRel == <<"/", "/", "other.org", "/", "x">>
HrefNewline == <<"https:", "/", "/", "other.org", "/", "\n", "x">>

\* A response body.  anchors: the href of every <a href=...> in document
\* order; texts: every text node in document order with the name of its
\* parent element and whether it is a comment.
TextNode(parent, comment, text) ==
    [parent |-> parent, comment |-> comment, text |-> text]

BodyA ==
    [anchors |-> <<HrefAbs, HrefRel, HrefNewline, HrefFrag, HrefProtoRel,
                   HrefAbs>>,
     texts |-> <<TextNode("title", FALSE, <<"T">>),
                 TextNode("body", FALSE, <<"Hello", " ">>),
                 TextNode("script", FALSE, <<"x">>),
                 TextNode("body", TRUE, <<"note">>),
                 TextNode("body", FALSE, <<" ", "World">>)>>]

BodyEmpty == [anchors |-> << >>, texts |-> << >>]

BodyError == [anchors |-> << >>, texts |-> <<TextNode("body", FALSE, <<"gone">>)>>]

\* requests.Response: ok is status_code < 400
Response(status, text) == [ok |-> status < 400, status |-> status, text |-> text]

NotFound == Response(404, BodyError)

\* what the server answers for a URL: the site has its root page only
Responses(url) ==
    IF url = UrlRoot
    THEN {Response(200, BodyA), Response(304, BodyEmpty), NotFound}
    ELSE {NotFound}

\* exceptions requests.get raises instead of returning a response
NetworkFaults == {"ConnectionError", "Timeout"}

\* file names a caller passes to store_query as name
OverrideNames == {<<"latest">>}

---------------------------------------------------------------------------
(* class Query *)

REPORT_CONTENT_START == 4
LINKS == <<"Link Scrape">>
TEXT == <<"Text Scrape">>

\* content of a Query: a list of str, a set of str (items in the iteration
\* order of the set object) or one str (items holds it)
ListContent(items) == [kind |-> "list", items |-> items]
SetContent(items) == [kind |-> "set", items |-> items]
StrContent(text) == [kind |-> "str", items |-> <<text>>]

\* Query.__init__ with dt = (date, time)
Query(page_url, content, action, date, time) ==
    [page_url |-> page_url, content |-> content, action |-> action,
     date_of |-> date, time_of |-> time]

\* Query.__init__ with dt = None
QueryNow(page_url, content, action, now) ==
    Query(page_url, content, action, fdate(now), ftime(now))

\* Query.id
QueryId(q) == <<q.page_url, q.date_of, q.time_of>>

\* Query.get_report
get_report(q) ==
    <<q.page_url \o <<"\n">>, q.action \o <<"\n">>,
      q.date_of \o <<"\n">>, q.time_of \o <<"\n">>>>
    \o (IF q.action = LINKS
        THEN [i \in 1..Len(q.content.items) |-> q.content.items[i] \o <<"\n">>]
        ELSE << >>)

\* Query.reconstruct_from_report, from the content of the report file
reconstruct_from_report(text) ==
    LET lines == SplitLines(text)
    IN  Query(lines[1],
              ListContent(SubSeq(lines, REPORT_CONTENT_START + 1, Len(lines))),
              lines[2], lines[3], lines[4])

---------------------------------------------------------------------------
(* class Cache *)

BASE_NAME == <<"caches">>
BASE_PATH == <<BASE_NAME>>
HOMEPAGE_NAME == <<"*", " ", "homepage">>

\* the name of the subfolder for queries, Cache.__init__
CacheName(is_homepage, rel_url) ==
    DropFirst(Replace(IF is_homepage THEN HOMEPAGE_NAME ELSE rel_url, "/", "-"))

CacheSuperPath(domain) == PathJoin(BASE_PATH, domain)

CachePath(domain, is_homepage, rel_url) ==
    PathJoin(CacheSuperPath(domain), CacheName(is_homepage, rel_url))

EmptyStorage == [k \in {} |-> None]

\* Cache.__init__: the object
CacheInit(domain, is_homepage, rel_url) ==
    [superpath |-> CacheSuperPath(domain),
     path |-> CachePath(domain, is_homepage, rel_url),
     storage |-> EmptyStorage]

\* Cache.__init__: the directories it leaves on disk
CacheInitDirs(d, domain, is_homepage, rel_url) ==
    MakeDirs(MakeDirs(d, CacheSuperPath(domain)),
             CachePath(domain, is_homepage, rel_url))

---------------------------------------------------------------------------
(* class Website *)

\* Website.__init__: the object
WebsiteInit(url) ==
    LET rel_url == UrlPath(url)
        domain == UrlNetloc(url)
        is_homepage == (url = rel_url)
    IN  [main_url |-> url, rel_url |-> rel_url, domain |-> domain,
         is_homepage |-> is_homepage,
         resp |-> None, html |-> None, soup |-> None, last_request |-> None,
         cache |-> CacheInit(domain, is_homepage, rel_url)]

\* BeautifulSoup(markup): the parse tree of a body
BeautifulSoup(body) == [anchors |-> body.anchors, texts |-> body.texts]

Built(h) == sites[h] # None
Site(h) == sites[h][1]

\* the call just made: op, the handle, its argument, how it ended
\* ("returned" or the name of the exception raised) and what it returned
Call(op, h, arg, outcome, ret) ==
    [op |-> op, h |-> h, arg |-> arg, outcome |-> outcome, ret |-> ret]

Init ==
    /\ \E url \in Urls :
          LET w == WebsiteInit(url) IN
          /\ sites = [h \in Handles |-> IF h = url THEN Some(w) ELSE None]
          /\ dirs = CacheInitDirs({<< >>}, w.domain, w.is_homepage, w.rel_url)
    /\ files = [p \in {} |-> << >>]
    /\ query = None
    /\ clock = 0
    /\ lastOp = Call("start", None, None, "returned", None)
    /\ made = {}
    /\ repeated = FALSE
    /\ calls = 0

\* the caller makes one more call
Called == calls < MaxCalls /\ calls' = calls + 1

\* Website(url)
NewWebsite(url) ==
    LET w == WebsiteInit(url) IN
    /\ Called
    /\ sites' = [sites EXCEPT ![url] = Some(w)]
    /\ dirs' = CacheInitDirs(dirs, w.domain, w.is_homepage, w.rel_url)
    /\ lastOp' = Call("Website", url, None, "returned", None)
    /\ UNCHANGED <<files, query, clock, made, repeated>>

\* the caller opens its page again: a fresh Website object, as a new run of
\* the program has
Reopen(url) == Built(url) /\ NewWebsite(url)

\* datetime.now() moves on by one second
Tick ==
    /\ clock < MaxClock
    /\ clock' = clock + 1
    /\ made' = {}
    /\ lastOp' = Call("tick", None, None, "returned", None)
    /\ UNCHANGED <<dirs, files, sites, query, repeated, calls>>


---------------------------------------------------------------------------
(* Website.request *)

HasScheme(url) == url # << >> /\ Head(url) \in SchemeTokens

Raised(exc) == [exc |-> exc, resp |-> None]
Answered(r) == [exc |-> "", resp |-> Some(r)]

\* requests.get(url): a response, or an exception when there is none
RequestsGet(url) ==
    IF HasScheme(url)
    THEN {Raised(e) : e \in NetworkFaults}
         \cup {Answered(r) : r \in Responses(url)}
    ELSE {Raised("MissingSchema")}

\* RequestAnswered with self.html assigned before the test of r.ok
RequestAnsweredHtmlFirst(w, r, now) ==
    IF ~r.ok
    THEN [site |-> [w EXCEPT !.last_request = Some(now),
                             !.html = Some(r.text)],
          ret |-> FALSE]
    ELSE [site |-> [w EXCEPT !.last_request = Some(now),
                             !.resp = Some(r),
                             !.html = Some(r.text),
                             !.soup = Some(BeautifulSoup(r.text))],
          ret |-> TRUE]

\* the body of request() once requests.get has answered with r
RequestAnswered(w, r, now) ==
    IF ~r.ok
    THEN [site |-> [w EXCEPT !.last_request = Some(now)], ret |-> FALSE]
    ELSE [site |-> [w EXCEPT !.last_request = Some(now),
                             !.resp = Some(r),
                             !.html = Some(r.text),
                             !.soup = Some(BeautifulSoup(r.text))],
          ret |-> TRUE]

request(h) ==
    /\ Called
    /\ Built(h)
    /\ \E o \in RequestsGet(Site(h).main_url) :
          IF o.exc # ""
          THEN /\ lastOp' = Call("request", h, o, o.exc, None)
               /\ UNCHANGED sites
          ELSE LET res == RequestAnswered(Site(h), o.resp[1], clock) IN
               /\ sites' = [sites EXCEPT ![h] = Some(res.site)]
               /\ lastOp' = Call("request", h, o, "returned", res.ret)
    /\ UNCHANGED <<dirs, files, query, clock, made, repeated>>

---------------------------------------------------------------------------
(* Website.scrape_links *)

StripChars == {"/", "\"", "#"}

\* str(href).strip('/"#')
LinkOf(href) == Strip(href, StripChars)

\* LinkKept with the "//" test made on the href as written, before strip
LinkKeptRaw(href, domain, same_domain) ==
    /\ Contains(href, <<"/", "/">>)
    /\ ~(same_domain /\ ~Contains(LinkOf(href), domain))

\* LinkKept without the same_domain test
LinkKeptAnyDomain(href, domain, same_domain) ==
    Contains(LinkOf(href), <<"/", "/">>)

\* the two continue tests of the loop: TRUE when the link is kept
LinkKept(href, domain, same_domain) ==
    LET link == LinkOf(href) IN
    /\ Contains(link, <<"/", "/">>)
    /\ ~(same_domain /\ ~Contains(link, domain))

\* the links appended, in document order
RECURSIVE KeptLinks(_, _, _)
KeptLinks(hrefs, domain, same_domain) ==
    IF hrefs = << >> THEN << >>
    ELSE (IF LinkKept(Head(hrefs), domain, same_domain)
          THEN <<LinkOf(Head(hrefs))>> ELSE << >>)
         \o KeptLinks(Tail(hrefs), domain, same_domain)

Range(seq) == {seq[i] : i \in 1..Len(seq)}

\* the orders in which a set object may iterate over its elements
Orderings(S) ==
    {o \in [1..Cardinality(S) -> S] : \A i, j \in 1..Cardinality(S) :
                                          o[i] = o[j] => i = j}

\* LinkContents with links.add appending like links.append
LinkContentsAppended(soup, domain, same_domain, as_set) ==
    LET kept == KeptLinks(soup.anchors, domain, same_domain) IN
    {IF as_set THEN SetContent(kept) ELSE ListContent(kept)}

\* the values links may have after the loop
LinkContents(soup, domain, same_domain, as_set) ==
    LET kept == KeptLinks(soup.anchors, domain, same_domain) IN
    IF as_set THEN {SetContent(o) : o \in Orderings(Range(kept))}
    ELSE {ListContent(kept)}

MadeKey(q) == <<q.page_url, q.action>>

\* a Query is returned to the caller
Returned(op, h, arg, q) ==
    /\ query' = Some(q)
    /\ made' = made \cup {MadeKey(q)}
    /\ repeated' = (repeated \/ MadeKey(q) \in made)
    /\ lastOp' = Call(op, h, arg, "returned", Some(q))

Faulted(op, h, arg, exc) ==
    /\ lastOp' = Call(op, h, arg, exc, None)
    /\ UNCHANGED <<query, made, repeated>>

scrape_links(h, same_domain, as_set) ==
    /\ Called
    /\ Built(h)
    /\ IF Site(h).soup = None
       THEN Faulted("scrape_links", h, <<same_domain, as_set>>, "AttributeError")
       ELSE \E c \in LinkContents(Site(h).soup[1], Site(h).domain,
                                  same_domain, as_set) :
               Returned("scrape_links", h, <<same_domain, as_set>>,
                        QueryNow(Site(h).main_url, c, LINKS, clock))
    /\ UNCHANGED <<dirs, files, sites, clock>>

---------------------------------------------------------------------------
(* Website.scrape_text *)

HiddenParents == {"style", "script", "head", "title", "meta", "[document]"}
Whitespace == {" ", "\n"}

\* tag_visible without the Comment test
tag_visibleComments(element) ==
    IF element.parent \in HiddenParents THEN FALSE ELSE TRUE

tag_visible(element) ==
    IF element.parent \in HiddenParents THEN FALSE
    ELSE IF element.comment THEN FALSE
    ELSE TRUE

\* u" ".join(strs)
RECURSIVE JoinSpace(_)
JoinSpace(strs) ==
    IF strs = << >> THEN << >>
    ELSE IF Len(strs) = 1 THEN strs[1]
    ELSE strs[1] \o <<" ">> \o JoinSpace(Tail(strs))

text_from_html(body) ==
    LET visible_texts == SelectSeq(BeautifulSoup(body).texts, tag_visible)
    IN  JoinSpace([i \in 1..Len(visible_texts) |->
                      Strip(visible_texts[i].text, Whitespace)])

scrape_text(h) ==
    /\ Called
    /\ Built(h)
    /\ IF Site(h).html = None
       THEN Faulted("scrape_text", h, None, "TypeError")
       ELSE Returned("scrape_text", h, None,
                     QueryNow(Site(h).main_url,
                              StrContent(text_from_html(Site(h).html[1])),
                              TEXT, clock))
    /\ UNCHANGED <<dirs, files, sites, clock>>


---------------------------------------------------------------------------
(* Cache.store_query *)

\* the dated folder of a query
DatePath(c, q) == PathJoin(c.path, q.date_of)

\* file_name: "<time> <action>" unless the caller names the file
FileName(q, name) ==
    IF name = None THEN q.time_of \o <<" ">> \o q.action ELSE name[1]

FilePath(c, q, name) == PathJoin(DatePath(c, q), FileName(q, name))

\* WriteFile with mode 'a': the report is added to what the file holds
WriteFileAppend(f, file_path, report) ==
    (file_path :> ((IF file_path \in DOMAIN f THEN f[file_path] ELSE << >>)
                   \o Concat(report))) @@ f

\* open(file_path, 'w'); file.writelines(report): the file holds the report
\* and nothing else
WriteFile(f, file_path, report) == (file_path :> Concat(report)) @@ f

\* self.storage[query.id] = query
StorageSet(storage, q) == (QueryId(q) :> q) @@ storage

store_query(h, q, name) ==
    LET c == Site(h).cache
        date_path == DatePath(c, q)
        file_path == FilePath(c, q, name)
    IN
    /\ Called
    /\ Built(h)
    /\ IF date_path \in DOMAIN files
       THEN \* the dated folder is a regular file: open() fails below it
            /\ lastOp' = Call("store_query", h, name, "NotADirectoryError", None)
            /\ UNCHANGED <<dirs, files, sites>>
       ELSE IF file_path \in dirs
       THEN \* the report's name is taken by a directory
            /\ dirs' = MakeDirs(dirs, date_path)
            /\ lastOp' = Call("store_query", h, name, "IsADirectoryError", None)
            /\ UNCHANGED <<files, sites>>
       ELSE /\ dirs' = IF ~PathExists(dirs, files, date_path)
                       THEN MakeDirs(dirs, date_path) ELSE dirs
            /\ files' = WriteFile(files, file_path, get_report(q))
            /\ sites' = [sites EXCEPT ![h] = Some([Site(h) EXCEPT
                            !.cache.storage = StorageSet(c.storage, q)])]
            /\ lastOp' = Call("store_query", h, name, "returned", file_path)
    /\ UNCHANGED <<query, clock, made, repeated>>

\* the caller stores the Query it holds in the cache of the page's handle
Store(h, name) ==
    /\ query # None
    /\ h = query[1].page_url
    /\ store_query(h, query[1], name)

---------------------------------------------------------------------------
(* Cache.load *)

\* TargetPath that ignores the date: the whole store is the target
TargetPathAll(c, date) == c.path

\* path = self.path if date is None else os.path.join(self.path, date)
TargetPath(c, date) == IF date = None THEN c.path ELSE PathJoin(c.path, date[1])

\* the Queries reconstructed from the files found by the walk
Reconstructed(f, path) ==
    {reconstruct_from_report(f[p]) : p \in WalkFiles(f, path)}

\* the values self.storage may have after the second loop: every
\* reconstructed Query is assigned under its id; os.walk lists the files of
\* a directory in arbitrary order, so among Queries of one id any may be
\* the one assigned last
LoadedStorages(storage, recon) ==
    LET ids == {QueryId(r) : r \in recon}
        last == {w \in [ids -> recon] : \A k \in ids : QueryId(w[k]) = k}
    IN  {[k \in DOMAIN storage \cup ids |->
             IF k \in ids THEN w[k] ELSE storage[k]] : w \in last}

\* load without its assert: a missing directory is walked as an empty one
loadUnchecked(h, date) ==
    LET c == Site(h).cache
        path == TargetPath(c, date)
    IN
    /\ Called
    /\ Built(h)
    /\ \E st \in LoadedStorages(c.storage, Reconstructed(files, path)) :
          /\ sites' = [sites EXCEPT ![h] = Some([Site(h) EXCEPT
                          !.cache.storage = st])]
          /\ lastOp' = Call("load", h, date, "returned", None)
    /\ UNCHANGED <<dirs, files, query, clock, made, repeated>>

load(h, date) ==
    LET c == Site(h).cache
        path == TargetPath(c, date)
    IN
    /\ Called
    /\ Built(h)
    /\ IF ~PathExists(dirs, files, path)
       THEN /\ lastOp' = Call("load", h, date, "AssertionError", None)
            /\ UNCHANGED sites
       ELSE \E st \in LoadedStorages(c.storage, Reconstructed(files, path)) :
               /\ sites' = [sites EXCEPT ![h] = Some([Site(h) EXCEPT
                               !.cache.storage = st])]
               /\ lastOp' = Call("load", h, date, "returned", None)
    /\ UNCHANGED <<dirs, files, query, clock, made, repeated>>

---------------------------------------------------------------------------
(* Cache.clear *)

\* shutil.rmtree(path) of a directory: it and everything below it is gone
RmTreeDirs(d, gone) == {p \in d : ~\E g \in gone : IsPrefix(g, p)}
RmTreeFiles(f, gone) ==
    [p \in {x \in DOMAIN f : ~\E g \in gone : IsPrefix(g, x)} |-> f[p]]

\* the sets of entries the loop of clear may have removed when it ends:
\* shutil.rmtree raises NotADirectoryError on a regular file, so the loop
\* removes the directories os.listdir lists before the first regular file
\* and then aborts; os.listdir lists in arbitrary order
ClearOutcomes(d, f, path) ==
    LET items == ListDir(d, f, path)
        fileItems == items \cap DOMAIN f
        dirItems == items \cap d
    IN  IF fileItems = {}
        THEN {[gone |-> dirItems, outcome |-> "returned"]}
        ELSE {[gone |-> g, outcome |-> "NotADirectoryError"] :
                 g \in SUBSET dirItems}

\* clear that also forgets the Queries of the mapping
clearForgets(h, date) ==
    LET c == Site(h).cache
        path == TargetPath(c, date)
    IN
    /\ Called
    /\ Built(h)
    /\ IF ~PathExists(dirs, files, path)
       THEN /\ lastOp' = Call("clear", h, date, "AssertionError", None)
            /\ UNCHANGED <<dirs, files, sites>>
       ELSE \E o \in ClearOutcomes(dirs, files, path) :
               /\ dirs' = RmTreeDirs(dirs, o.gone)
               /\ files' = RmTreeFiles(files, o.gone)
               /\ sites' = [sites EXCEPT ![h] = Some([Site(h) EXCEPT
                               !.cache.storage = EmptyStorage])]
               /\ lastOp' = Call("clear", h, date, o.outcome, None)
    /\ UNCHANGED <<query, clock, made, repeated>>

clear(h, date) ==
    LET c == Site(h).cache
        path == TargetPath(c, date)
    IN
    /\ Called
    /\ Built(h)
    /\ IF ~PathExists(dirs, files, path)
       THEN /\ lastOp' = Call("clear", h, date, "AssertionError", None)
            /\ UNCHANGED <<dirs, files>>
       ELSE \E o \in ClearOutcomes(dirs, files, path) :
               /\ dirs' = RmTreeDirs(dirs, o.gone)
               /\ files' = RmTreeFiles(files, o.gone)
               /\ lastOp' = Call("clear", h, date, o.outcome, None)
    /\ UNCHANGED <<sites, query, clock, made, repeated>>

---------------------------------------------------------------------------
(* Cache._get_contents, Cache.get_all_domains *)

\* the names the body of class Cache binds
CacheNames ==
    {"BASE_NAME", "BASE_PATH", "HOMEPAGE_NAME", "__init__", "store_query",
     "load", "clear", "_get_contents", "get_all_domains"}

\* os.listdir yields bare names, which os.path.isdir and os.path.isfile
\* resolve against the working directory, not against path; dirs and files
\* are lists, and a list has no add: the first name that exists in the
\* working directory raises, and no name is ever collected
_get_contents(d, f, path) ==
    LET names == {p[Len(p)] : p \in ListDir(d, f, path)} IN
    IF \E n \in names : PathExists(d, f, <<n>>)
    THEN [exc |-> "AttributeError", dirs |-> << >>, files |-> << >>]
    ELSE [exc |-> "", dirs |-> << >>, files |-> << >>]

\* Cache.get_contents(Cache.BASE_PATH)[0]: the attribute is looked up on
\* the class before anything is called
get_all_domains ==
    /\ Called
    /\ lastOp' =
          IF "get_contents" \notin CacheNames
          THEN Call("get_all_domains", None, None, "AttributeError", None)
          ELSE LET r == _get_contents(dirs, files, BASE_PATH) IN
               IF r.exc # ""
               THEN Call("get_all_domains", None, None, r.exc, None)
               ELSE Call("get_all_domains", None, None, "returned",
                         Some(r.dirs))
    /\ UNCHANGED <<dirs, files, sites, query, clock, made, repeated>>

---------------------------------------------------------------------------
(* The caller *)

\* the dates a caller asks for: today or an earlier day of the run
Dates == {fdate(t) : t \in 0..clock}

Next ==
    \/ \E url \in Urls : Reopen(url)
    \/ Tick
    \/ \E h \in Handles : request(h)
    \/ \E h \in Handles, same_domain \in BOOLEAN, as_set \in BOOLEAN :
          scrape_links(h, same_domain, as_set)
    \/ \E h \in Handles : scrape_text(h)
    \/ \E h \in Handles, name \in {None} \cup {Some(n) : n \in OverrideNames} :
          Store(h, name)
    \/ \E h \in Handles, date \in {None} \cup {Some(d) : d \in Dates} :
          load(h, date)
    \/ \E h \in Handles, date \in {None} \cup {Some(d) : d \in Dates} :
          clear(h, date)
    \/ get_all_domains

Spec == Init /\ [][Next]_vars

\* a program that holds two Website objects of different URLs at once
InitPair ==
    /\ \E url1 \in Urls : \E url2 \in Urls \ {url1} :
          LET w1 == WebsiteInit(url1)
              w2 == WebsiteInit(url2)
          IN
          /\ sites = [h \in Handles |-> IF h = url1 THEN Some(w1)
                                        ELSE IF h = url2 THEN Some(w2)
                                        ELSE None]
          /\ dirs = CacheInitDirs(
                       CacheInitDirs({<< >>}, w1.domain, w1.is_homepage,
                                     w1.rel_url),
                       w2.domain, w2.is_homepage, w2.rel_url)
    /\ files = [p \in {} |-> << >>]
    /\ query = None
    /\ clock = 0
    /\ lastOp = Call("start", None, None, "returned", None)
    /\ made = {}
    /\ repeated = FALSE
    /\ calls = 0

SpecPair == InitPair /\ [][Next]_vars

\* every report on disk has the four header lines reconstruct_from_report
\* unpacks
ReportsWellFormed ==
    \A p \in DOMAIN files : Len(SplitLines(files[p])) >= REPORT_CONTENT_START


---------------------------------------------------------------------------
(* Vocabulary of the properties *)

Storage(h) == Site(h).cache.storage

StoreNames == {None} \cup {Some(n) : n \in OverrideNames}

DoubleSlash == <<"/", "/">>

\* the last call was op and it returned normally
Did(op) == lastOp.op = op /\ lastOp.outcome = "returned"

\* the report of q is on disk in the store of h, as store_query wrote it
ReportOnDisk(h, q) ==
    \E name \in StoreNames :
        /\ FilePath(Site(h).cache, q, name) \in DOMAIN files
        /\ files[FilePath(Site(h).cache, q, name)] = Concat(get_report(q))

\* the caller holds a Query of the given action, has stored it, and has
\* then loaded its date
StoredThenLoaded(action) ==
    /\ Did("load")
    /\ query # None
    /\ query[1].action = action
    /\ lastOp.arg = Some(query[1].date_of)
    /\ ReportOnDisk(lastOp.h, query[1])

---------------------------------------------------------------------------
(* C1 *)

\* C1: round trip of a "Link Scrape" Query: once q is stored and its date is
\* loaded from the same store, the mapping holds under q.id a Query with the
\* identity key of q and with the links of q, same content, same order.
C1_LinkRoundTrip ==
    StoredThenLoaded(LINKS) =>
        LET q == query[1] IN
        /\ QueryId(q) \in DOMAIN Storage(lastOp.h)
        /\ QueryId(Storage(lastOp.h)[QueryId(q)]) = QueryId(q)
        /\ Storage(lastOp.h)[QueryId(q)].content.items = q.content.items

---------------------------------------------------------------------------
(* C2 *)

\* C2: clear(date) on a date directory that exists removes all its entries:
\* after the call no report is left below that directory, so a load of the
\* date reconstructs nothing.
C2_ClearEmptiesDate ==
    (lastOp.op = "clear" /\ lastOp.arg # None
        /\ lastOp.outcome # "AssertionError") =>
        WalkFiles(files, TargetPath(Site(lastOp.h).cache, lastOp.arg)) = {}

---------------------------------------------------------------------------
(* C3 *)

\* requests.get gave no response (network failure, timeout), or one whose
\* status is not 2xx
NoSuccess(o) ==
    IF o.resp = None THEN o.exc \in NetworkFaults
    ELSE o.resp[1].status \notin 200..299

\* C3: a request() whose response is non-2xx or absent returns False and
\* leaves html as it was.
C3_FailedRequest ==
    [][(lastOp'.op = "request" /\ NoSuccess(lastOp'.arg)) =>
          /\ lastOp'.outcome = "returned"
          /\ lastOp'.ret = FALSE
          /\ sites'[lastOp'.h][1].html = sites[lastOp'.h][1].html]_vars

---------------------------------------------------------------------------
(* C4 *)

\* C4: after store_query(q, name) the file <store path>/<date>/<time action>
\* (or the override name) holds exactly the report of q, the mapping holds q
\* under q.id, the path of that file is returned, and the call never fails.
C4_StorePostcondition ==
    lastOp.op = "store_query" =>
        LET q == query[1]
            c == Site(lastOp.h).cache
            file_name == IF lastOp.arg = None
                         THEN q.time_of \o <<" ">> \o q.action
                         ELSE lastOp.arg[1]
            file_path == c.path \o <<q.date_of, file_name>>
        IN  /\ lastOp.outcome = "returned"
            /\ file_path \in DOMAIN files
            /\ files[file_path] = Concat(get_report(q))
            /\ QueryId(q) \in DOMAIN c.storage
            /\ c.storage[QueryId(q)] = q
            /\ lastOp.ret = file_path

\* a Query was stored under the override name into a dated directory that
\* already held its report under the default name
C4_Witness ==
    /\ Did("store_query")
    /\ lastOp.arg # None
    /\ FilePath(Site(lastOp.h).cache, query[1], None) \in DOMAIN files
    /\ QueryId(query[1]) \in DOMAIN Storage(lastOp.h)

---------------------------------------------------------------------------
(* C5 *)

\* the segment the layout names for a URL path
LayoutSegment(rel_url) ==
    IF rel_url \in {<< >>, <<"/">>} THEN HOMEPAGE_NAME
    ELSE DropFirst(Replace(rel_url, "/", "-"))

\* C5: the store directory of a page handle of an absolute URL is
\* caches/<domain>/<segment>; the segment is the path with slashes replaced
\* by dashes and the leading character stripped, and is '* homepage' for the
\* homepage, so https://example.com/ is stored under
\* caches/example.com/* homepage.
C5_StoreDirectory ==
    \A h \in Handles :
        (Built(h) /\ HasScheme(h)) =>
            Site(h).cache.path =
                <<BASE_NAME, UrlNetloc(h), LayoutSegment(UrlPath(h))>>

---------------------------------------------------------------------------
(* C6 *)

\* C6: load(date) and clear(date) on a target directory that does not exist
\* abort with a fault; the mapping and the on-disk tree are as before.
C6_MissingTargetFaults ==
    [][(lastOp'.op \in {"load", "clear"}
          /\ ~PathExists(dirs, files,
                         TargetPath(Site(lastOp'.h).cache, lastOp'.arg))) =>
          /\ lastOp'.outcome = "AssertionError"
          /\ sites' = sites
          /\ dirs' = dirs
          /\ files' = files]_vars

\* a load or clear has faulted on a missing directory while the mapping and
\* the disk held records
C6_Witness ==
    /\ lastOp.op \in {"load", "clear"}
    /\ lastOp.outcome = "AssertionError"
    /\ DOMAIN Storage(lastOp.h) # {}
    /\ DOMAIN files # {}

---------------------------------------------------------------------------
(* C7 *)

\* C7: clear never touches the in-memory mapping, whether it completes or
\* faults.
C7_ClearKeepsMapping ==
    [][lastOp'.op = "clear" =>
          sites'[lastOp'.h][1].cache.storage
              = sites[lastOp'.h][1].cache.storage]_vars

\* clear has completed and deleted every report, and the Queries are still
\* in the mapping
C7_Witness ==
    /\ Did("clear")
    /\ DOMAIN files = {}
    /\ DOMAIN Storage(lastOp.h) # {}

---------------------------------------------------------------------------
(* C8 *)

\* C8: provided no two extractions of the same action against the same URL
\* occur within the same second, no two Queries share an identity key: the
\* Queries extracted from one URL within one second are one Query.
C8_IdentityUnique ==
    ~repeated => \A a, b \in made : a[1] = b[1] => a = b

---------------------------------------------------------------------------
(* C9 *)

\* C9: the report of a "Text Scrape" Query has exactly 4 lines; once it is
\* stored and its date is loaded, the mapping holds under its id the
\* reconstructed Query: same identity key, same action, empty content.
C9_TextRoundTrip ==
    StoredThenLoaded(TEXT) =>
        LET q == query[1] IN
        /\ Len(get_report(q)) = 4
        /\ QueryId(q) \in DOMAIN Storage(lastOp.h)
        /\ Storage(lastOp.h)[QueryId(q)]
              = Query(q.page_url, ListContent(<< >>), TEXT, q.date_of, q.time_of)

---------------------------------------------------------------------------
(* C10 *)

\* C10: every link of a Query returned by scrape_links contains "//",
\* whatever the markup and the flags.
C10_LinksAreAbsolute ==
    Did("scrape_links") =>
        \A i \in 1..Len(query[1].content.items) :
            Contains(query[1].content.items[i], DoubleSlash)

\* scrape_links has returned links from a page that also has relative,
\* fragment-only and scheme-less hrefs
C10_Witness ==
    /\ Did("scrape_links")
    /\ query[1].content.items # << >>
    /\ \E i \in 1..Len(Site(lastOp.h).soup[1].anchors) :
          ~Contains(Site(lastOp.h).soup[1].anchors[i], DoubleSlash)
    /\ \E i \in 1..Len(Site(lastOp.h).soup[1].anchors) :
          /\ Contains(Site(lastOp.h).soup[1].anchors[i], DoubleSlash)
          /\ ~Contains(LinkOf(Site(lastOp.h).soup[1].anchors[i]), DoubleSlash)

---------------------------------------------------------------------------
(* C11 *)

\* the links of the page scrape_links has just read that contain "//"
AbsoluteLinks(h) ==
    {LinkOf(Site(h).soup[1].anchors[i]) :
        i \in {j \in 1..Len(Site(h).soup[1].anchors) :
                  Contains(LinkOf(Site(h).soup[1].anchors[j]), DoubleSlash)}}

\* C11: with same_domain set, every link scrape_links returns contains the
\* domain of the page handle; with same_domain unset, every "//" link of
\* the page is returned, those that do not contain the domain included.
C11_SameDomain ==
    Did("scrape_links") =>
        IF lastOp.arg[1]
        THEN \A i \in 1..Len(query[1].content.items) :
                Contains(query[1].content.items[i], Site(lastOp.h).domain)
        ELSE AbsoluteLinks(lastOp.h) \subseteq Range(query[1].content.items)

\* scrape_links with same_domain set has returned links from a page that
\* also links to another domain
C11_Witness ==
    /\ Did("scrape_links")
    /\ lastOp.arg[1]
    /\ query[1].content.items # << >>
    /\ \E l \in AbsoluteLinks(lastOp.h) : ~Contains(l, Site(lastOp.h).domain)

---------------------------------------------------------------------------
(* C12 *)

\* the names of the directories directly under the store root
TopLevelDirectories ==
    {p[Len(p)] : p \in {q \in dirs : Len(q) = Len(BASE_PATH) + 1
                                       /\ IsPrefix(BASE_PATH, q)}}

\* C12: get_all_domains returns, in every state of the on-disk tree, the
\* names of the directories directly under the store root.
C12_AllDomains ==
    lastOp.op = "get_all_domains" =>
        /\ lastOp.outcome = "returned"
        /\ lastOp.ret # None
        /\ Range(lastOp.ret[1]) = TopLevelDirectories

---------------------------------------------------------------------------
(* C13 *)

\* <html><head><title>T</title></head><body>Hello <script>x</script>
\*  World</body></html>
ExampleMarkup ==
    [anchors |-> << >>,
     texts |-> <<TextNode("title", FALSE, <<"T">>),
                 TextNode("body", FALSE, <<"Hello", " ">>),
                 TextNode("script", FALSE, <<"x">>),
                 TextNode("body", FALSE, <<" ", "World">>)>>]

\* the trimmed text nodes, in document order, that are not comments and
\* whose parent is none of the six names
RECURSIVE ShownTexts(_)
ShownTexts(texts) ==
    IF texts = << >> THEN << >>
    ELSE (IF /\ ~Head(texts).comment
             /\ Head(texts).parent \notin {"style", "script", "head", "title",
                                            "meta", "[document]"}
          THEN <<Strip(Head(texts).text, Whitespace)>> ELSE << >>)
         \o ShownTexts(Tail(texts))

\* C13: scrape_text returns a "Text Scrape" Query whose content is the
\* trimmed text nodes of the markup that are not comments and have no hidden
\* parent, in document order, joined with single spaces; for the example
\* markup the content is "Hello World".
C13_VisibleText ==
    /\ text_from_html(ExampleMarkup) = <<"Hello", " ", "World">>
    /\ Did("scrape_text") =>
          /\ query[1].action = TEXT
          /\ query[1].page_url = Site(lastOp.h).main_url
          /\ query[1].content
                = StrContent(JoinSpace(ShownTexts(Site(lastOp.h).html[1].texts)))

\* scrape_text has returned "Hello World" from a page that also has a
\* title, a script and a comment
C13_Witness ==
    /\ Did("scrape_text")
    /\ query[1].content = StrContent(<<"Hello", " ", "World">>)
    /\ \E i \in 1..Len(Site(lastOp.h).html[1].texts) :
          Site(lastOp.h).html[1].texts[i].comment
    /\ \E i \in 1..Len(Site(lastOp.h).html[1].texts) :
          Site(lastOp.h).html[1].texts[i].parent \in {"title", "script"}

---------------------------------------------------------------------------
(* C14 *)

\* the report files below the directory a load of the given date walks
FilesInScope(h, date) ==
    {p \in DOMAIN files :
        IsPrefix(IF date = None THEN Site(h).cache.path
                 ELSE Site(h).cache.path \o <<date[1]>>, p)}

\* C14: a load that returns puts into the mapping a reconstructed Query
\* under the id of every report file in its scope (the date's subdirectory,
\* or the whole store directory when no date is given), adds no other key,
\* and leaves the entries under all other keys as they were.
C14_LoadScope ==
    [][(lastOp'.op = "load" /\ lastOp'.outcome = "returned") =>
          LET h == lastOp'.h
              recon == {reconstruct_from_report(files[p]) :
                           p \in FilesInScope(h, lastOp'.arg)}
              ids == {QueryId(r) : r \in recon}
              old == Site(h).cache.storage
              new == sites'[h][1].cache.storage
          IN  /\ DOMAIN new = DOMAIN old \cup ids
              /\ \A k \in ids : new[k] \in recon /\ QueryId(new[k]) = k
              /\ \A k \in DOMAIN old \ ids : new[k] = old[k]]_vars

\* a load of one date has returned while the store holds reports of two
\* dates, and the mapping has an entry of the other date that no report
\* reconstructs
C14_Witness ==
    /\ Did("load")
    /\ lastOp.arg # None
    /\ FilesInScope(lastOp.h, lastOp.arg) # {}
    /\ FilesInScope(lastOp.h, None) # FilesInScope(lastOp.h, lastOp.arg)
    /\ \E k \in DOMAIN Storage(lastOp.h) :
          /\ k[2] # lastOp.arg[1]
          /\ Storage(lastOp.h)[k].content.kind # "list"

---------------------------------------------------------------------------
(* C15 *)

\* the links of the page of h that pass the tests of scrape_links, one per
\* anchor, in the order of the anchors in the document
LinksInDocumentOrder(h, same_domain) ==
    SelectSeq([i \in 1..Len(Site(h).soup[1].anchors) |->
                  LinkOf(Site(h).soup[1].anchors[i])],
              LAMBDA l : /\ Contains(l, DoubleSlash)
                         /\ same_domain => Contains(l, Site(h).domain))

\* C15: without deduplication scrape_links returns the kept links in their
\* order of appearance in the document, duplicates preserved; with
\* deduplication each kept link occurs exactly once in the result.
C15_OrderAndDuplicates ==
    Did("scrape_links") =>
        LET items == query[1].content.items
            kept == LinksInDocumentOrder(lastOp.h, lastOp.arg[1])
        IN  IF lastOp.arg[2]
            THEN /\ Range(items) = Range(kept)
                 /\ \A i, j \in 1..Len(items) : items[i] = items[j] => i = j
            ELSE items = kept

\* scrape_links with deduplication has returned fewer links than the page
\* has kept anchors: a link that occurs twice in the document
C15_Witness ==
    /\ Did("scrape_links")
    /\ lastOp.arg[2]
    /\ query[1].content.items # << >>
    /\ Len(query[1].content.items)
          < Len(LinksInDocumentOrder(lastOp.h, lastOp.arg[1]))

---------------------------------------------------------------------------
(* C16 *)

\* C16: two page handles whose URLs differ in domain or in path have
\* different store directories, and the store directory of neither is the
\* other's nor lies inside it.
C16_StoreIsolation ==
    \A h1 \in Handles, h2 \in Handles :
        (/\ h1 # h2
         /\ Built(h1)
         /\ Built(h2)
         /\ \/ Site(h1).domain # Site(h2).domain
            \/ Site(h1).rel_url # Site(h2).rel_url)
        => ~IsPrefix(Site(h1).cache.path, Site(h2).cache.path)

---------------------------------------------------------------------------
(* C17 *)

\* resp, html and soup of w are all None, or html is the text of resp and
\* soup is the parse of that text
FetchStateOf(w) ==
    \/ w.resp = None /\ w.html = None /\ w.soup = None
    \/ /\ w.resp # None
       /\ w.resp[1].ok
       /\ w.html = Some(w.resp[1].text)
       /\ w.soup = Some([anchors |-> w.resp[1].text.anchors,
                         texts |-> w.resp[1].text.texts])

\* C17: html, soup and resp of a page handle always come from one response;
\* a request that succeeds makes it the response just received, and a
\* request that fails (a status of 400 or more, or an exception) changes
\* nothing of the handle but last_request.
C17_FetchState ==
    [][/\ \A h \in Handles : sites'[h] # None => FetchStateOf(sites'[h][1])
       /\ lastOp'.op = "request" =>
             LET before == Site(lastOp'.h)
                 after == sites'[lastOp'.h][1]
             IN  IF lastOp'.outcome = "returned" /\ lastOp'.ret
                 THEN after.resp = lastOp'.arg.resp
                 ELSE after = [before EXCEPT
                                  !.last_request = after.last_request]]_vars

\* a request has failed on a handle that had fetched its page before: the
\* handle keeps the earlier response, and last_request is set
C17_Witness ==
    /\ lastOp.op = "request"
    /\ lastOp.outcome = "returned"
    /\ ~lastOp.ret
    /\ Site(lastOp.h).resp # None
    /\ Site(lastOp.h).resp # lastOp.arg.resp
    /\ Site(lastOp.h).html # None
    /\ Site(lastOp.h).last_request # None

=============================================================================
